---- MODULE Spec2Model ----
(***************************************************************************)
(* Route and Packing List Generator (app.py).                              *)
(*                                                                         *)
(* One pipeline run: process_data (forward fill, address cut, item split,  *)
(* catalog classification, left merge), the packing aggregation, the two   *)
(* per-driver workbooks and the two download buttons, all inside one       *)
(* try/except.  The pure helpers are also run on their own, over bounded   *)
(* sets of inputs (SpecItems, SpecClassify, SpecFfill).                    *)
(*                                                                         *)
(* Data representation.  A text is a sequence of one-character strings.    *)
(* A cell of a table is NaN (pandas' missing value) or <<v>>, so that a    *)
(* cell holding the empty text, << <<>> >>, differs from a missing cell.   *)
(* A table is a sequence of rows; a row maps column names to cells.        *)
(* The catalog keywords are written one syllable per Chinese character:    *)
(* shu cai shui guo lei, du jia ding yue bao, bing dong leng cang lei,     *)
(* chang wen lei.                                                          *)
(***************************************************************************)
EXTENDS Integers, Sequences, FiniteSets, TLC

VARIABLES
    pc,             \* position of the run inside the script
    route_file,     \* uploaded route CSV: [columns, rows]
    products_file,  \* uploaded catalog CSV: sequence of rows
    route_df,       \* merged route table returned by process_data
    df_plist,       \* tagged catalog returned by process_data
    packing_df,     \* packing table
    routing_file,   \* routing workbook, NaN until created
    packing_file,   \* packing workbook, NaN until created
    offered,        \* download buttons shown to the user
    error,          \* message shown by st.error, NaN if none
    tag,            \* argument of determine_product_type (SpecClassify)
    product_type,   \* its result
    items,          \* one Items cell (SpecItems)
    item_parts,     \* its split: [name, count]
    filled          \* route rows after forward fill (SpecFfill)

vars == <<pc, route_file, products_file, route_df, df_plist, packing_df,
          routing_file, packing_file, offered, error,
          tag, product_type, items, item_parts, filled>>

pipelineVars == <<route_file, products_file, route_df, df_plist, packing_df,
                  routing_file, packing_file, offered, error>>

(***************************************************************************)
(* Bounds                                                                  *)
(***************************************************************************)
MaxItemsLen == 4     \* longest Items text tried by SpecItems
MaxFrags    == 3     \* most fragments of a tag tried by SpecClassify
MaxFillRows == 3     \* most route rows tried by SpecFfill
MaxRows     == 2     \* most route rows of a pipeline run
MaxCatalog  == 2     \* most catalog rows of a pipeline run

(***************************************************************************)
(* Cells and texts                                                         *)
(***************************************************************************)
NaN == <<>>

Some(v) == <<v>>

Val(c) == c[1]

NotNa(c) == c # NaN

Min2(a, b) == IF a <= b THEN a ELSE b

SetMin(S) == CHOOSE m \in S : \A k \in S : m <= k

SetMax(S) == CHOOSE m \in S : \A k \in S : m >= k

Digits == {"0", "1", "2", "3", "4", "5", "6", "7", "8", "9"}

IsDigit(ch) == ch \in Digits

DigitVal(ch) ==
    CASE ch = "0" -> 0 [] ch = "1" -> 1 [] ch = "2" -> 2 [] ch = "3" -> 3
      [] ch = "4" -> 4 [] ch = "5" -> 5 [] ch = "6" -> 6 [] ch = "7" -> 7
      [] ch = "8" -> 8 [] ch = "9" -> 9

\* int(text) of a text of decimal digits
RECURSIVE ToInt(_)
ToInt(t) ==
    IF Len(t) = 0 THEN 0
    ELSE 10 * ToInt(SubSeq(t, 1, Len(t) - 1)) + DigitVal(t[Len(t)])

\* kw in text
Contains(text, kw) ==
    \E i \in 1..(Len(text) - Len(kw) + 1) : SubSeq(text, i, i + Len(kw) - 1) = kw

(***************************************************************************)
(* determine_product_type                                                  *)
(***************************************************************************)
KwVegeFruit == <<"shu", "cai", "shui", "guo", "lei">>
KwSubscription == <<"du", "jia", "ding", "yue", "bao">>
KwCool == <<"bing", "dong", "leng", "cang", "lei">>
KwGeneral == <<"chang", "wen", "lei">>

\* str(tag): a text is itself, a missing value prints as "nan"
Str(cell) == IF cell = NaN THEN <<"n", "a", "n">> ELSE Val(cell)

LowerChar(ch) ==
    CASE ch = "A" -> "a" [] ch = "B" -> "b" [] ch = "C" -> "c"
      [] ch = "N" -> "n" [] ch = "X" -> "x" [] OTHER -> ch

Lower(text) == [i \in 1..Len(text) |-> LowerChar(text[i])]

determine_product_type_swapped(cell) ==
    LET t == Lower(Str(cell))
    IN  IF Contains(t, KwVegeFruit) \/ Contains(t, KwSubscription) THEN "vege & fruit"
        ELSE IF Contains(t, KwGeneral) THEN "general"
        ELSE IF Contains(t, KwCool) THEN "cool"
        ELSE "other"

determine_product_type(cell) ==
    LET t == Lower(Str(cell))
    IN  IF Contains(t, KwVegeFruit) \/ Contains(t, KwSubscription) THEN "vege & fruit"
        ELSE IF Contains(t, KwCool) THEN "cool"
        ELSE IF Contains(t, KwGeneral) THEN "general"
        ELSE "other"

(***************************************************************************)
(* Item split: Items.str[3:] and Items.str[:3].str.extract('(\d+)')        *)
(***************************************************************************)
PrefixLen == 3

\* .str[PrefixLen:]
StrFrom(cell) ==
    IF cell = NaN THEN NaN ELSE Some(SubSeq(Val(cell), PrefixLen + 1, Len(Val(cell))))

\* .str[:PrefixLen]
StrUpTo(cell) ==
    IF cell = NaN THEN NaN ELSE Some(SubSeq(Val(cell), 1, Min2(PrefixLen, Len(Val(cell)))))

\* end of the run of digits of t that starts at s
RECURSIVE DigitRunEnd(_, _)
DigitRunEnd(t, s) ==
    IF s < Len(t) /\ IsDigit(t[s + 1]) THEN DigitRunEnd(t, s + 1) ELSE s

ExtractDigits_one(cell) ==
    IF cell = NaN THEN NaN
    ELSE LET t == Val(cell)
             at == {i \in 1..Len(t) : IsDigit(t[i])}
         IN  IF at = {} THEN NaN
             ELSE Some(SubSeq(t, SetMin(at), SetMin(at)))

\* .str.extract('(\d+)'): the first, longest run of digits, NaN without one
ExtractDigits(cell) ==
    IF cell = NaN THEN NaN
    ELSE LET t == Val(cell)
             at == {i \in 1..Len(t) : IsDigit(t[i])}
         IN  IF at = {} THEN NaN
             ELSE Some(SubSeq(t, SetMin(at), DigitRunEnd(t, SetMin(at))))

LineitemName(cell) == StrFrom(cell)

ItemCount(cell) == ExtractDigits(StrUpTo(cell))

(***************************************************************************)
(* Forward fill and address cut                                            *)
(***************************************************************************)
FillCols == {"Route", "Driver", "Stop", "Address", "Shipping name"}

Column(df, col) == [i \in 1..Len(df) |-> df[i][col]]

Ffill_limit1(s) ==
    [i \in 1..Len(s) |-> IF s[i] = NaN /\ i > 1 THEN s[i - 1] ELSE s[i]]

\* the scan of ffill: out holds the filled cells so far, last the value carried
RECURSIVE FfillScan(_, _, _)
FfillScan(s, last, out) ==
    IF Len(s) = 0 THEN out
    ELSE IF Head(s) = NaN THEN FfillScan(Tail(s), last, Append(out, last))
    ELSE FfillScan(Tail(s), Head(s), Append(out, Head(s)))

\* Series.ffill(): one scan carrying the last value seen
Ffill(s) == FfillScan(s, NaN, <<>>)

\* route_df[fill_cols] = route_df[fill_cols].ffill()
FfillCols(df, cols) ==
    LET f == [c \in cols |-> Ffill(Column(df, c))]
    IN  [i \in 1..Len(df) |->
            [c \in DOMAIN df[i] |-> IF c \in cols THEN f[c][i] ELSE df[i][c]]]

\* .str.split(',').str[0]
SplitFirst(cell) ==
    IF cell = NaN THEN NaN
    ELSE LET t == Val(cell)
             commas == {i \in 1..Len(t) : t[i] = ","}
         IN  IF commas = {} THEN cell ELSE Some(SubSeq(t, 1, SetMin(commas) - 1))

\* route_df['Address'] = route_df['Address'].str.split(',').str[0].ffill()
CutAddress(df) ==
    LET cut == Ffill([i \in 1..Len(df) |-> SplitFirst(df[i]["Address"])])
    IN  [i \in 1..Len(df) |-> [df[i] EXCEPT !["Address"] = cut[i]]]

FillRoutes(rows) == CutAddress(FfillCols(rows, FillCols))

(***************************************************************************)
(* Ordering of values (sort_values, groupby): strings in code point order, *)
(* missing values last                                                     *)
(***************************************************************************)
Ord(s) ==
    CASE s = " " -> 1 [] s = "," -> 2
      [] s = "0" -> 10 [] s = "1" -> 11 [] s = "2" -> 12 [] s = "3" -> 13
      [] s = "4" -> 14 [] s = "5" -> 15 [] s = "6" -> 16 [] s = "7" -> 17
      [] s = "8" -> 18 [] s = "9" -> 19
      [] s = "A" -> 30 [] s = "Ann" -> 31 [] s = "B" -> 32 [] s = "Bob" -> 33
      [] s = "C" -> 34 [] s = "a" -> 40 [] s = "b" -> 41 [] s = "c" -> 42
      [] s = "cool" -> 43 [] s = "general" -> 44 [] s = "other" -> 45
      [] s = "vege & fruit" -> 46 [] s = "x" -> 47

RECURSIVE TextCmp(_, _)
TextCmp(a, b) ==
    IF Len(a) = 0 /\ Len(b) = 0 THEN 0
    ELSE IF Len(a) = 0 THEN -1
    ELSE IF Len(b) = 0 THEN 1
    ELSE IF Ord(a[1]) < Ord(b[1]) THEN -1
    ELSE IF Ord(a[1]) > Ord(b[1]) THEN 1
    ELSE TextCmp(Tail(a), Tail(b))

IntCmp(a, b) == IF a < b THEN -1 ELSE IF a > b THEN 1 ELSE 0

\* comparison of two cells of column col, NaN after every value
CellCmp(col, x, y) ==
    IF x = NaN /\ y = NaN THEN 0
    ELSE IF x = NaN THEN 1
    ELSE IF y = NaN THEN -1
    ELSE IF col = "Lineitem name" THEN TextCmp(Val(x), Val(y))
    ELSE IF col = "Variant SKU" THEN IntCmp(Val(x), Val(y))
    ELSE IntCmp(Ord(Val(x)), Ord(Val(y)))

\* lexicographic comparison of two rows on the columns by, in order
RECURSIVE RowCmp(_, _, _)
RowCmp(by, r1, r2) ==
    IF Len(by) = 0 THEN 0
    ELSE LET c == CellCmp(by[1], r1[by[1]], r2[by[1]])
         IN  IF c # 0 THEN c ELSE RowCmp(Tail(by), r1, r2)

\* df with row r put after the last row that is not greater than it
RECURSIVE InsertSorted(_, _, _)
InsertSorted(df, r, by) ==
    IF Len(df) = 0 THEN <<r>>
    ELSE IF RowCmp(by, df[Len(df)], r) <= 0 THEN Append(df, r)
    ELSE Append(InsertSorted(SubSeq(df, 1, Len(df) - 1), r, by), df[Len(df)])

SortValues_unsorted(df, by) == df

\* df.sort_values(by=by)
RECURSIVE SortValues(_, _)
SortValues(df, by) ==
    IF Len(df) = 0 THEN df
    ELSE InsertSorted(SortValues(SubSeq(df, 1, Len(df) - 1), by), df[Len(df)], by)

Restrict(row, cols) == [c \in cols |-> row[c]]

Select(df, cols) == [i \in 1..Len(df) |-> Restrict(df[i], cols)]

\* the rows of df at the positions I, in table order
RECURSIVE Rows(_, _)
Rows(df, I) ==
    IF I = {} THEN <<>>
    ELSE <<df[SetMin(I)]>> \o Rows(df, I \ {SetMin(I)})

\* the set S of rows, distinct on the columns by, as a table sorted on by
RECURSIVE SortedKeys(_, _)
SortedKeys(S, by) ==
    IF S = {} THEN <<>>
    ELSE LET m == CHOOSE k \in S : \A o \in S : RowCmp(by, k, o) <= 0
         IN  <<m>> \o SortedKeys(S \ {m}, by)

\* keys of df.groupby(by): the distinct key rows without NaN, sorted
GroupKeys(df, by) ==
    LET cols == {by[j] : j \in 1..Len(by)}
        keys == {Restrict(df[i], cols) : i \in 1..Len(df)}
    IN  SortedKeys({k \in keys : \A c \in cols : NotNa(k[c])}, by)

\* rows of df in the group of key k, in table order
Group(df, k) == Rows(df, {i \in 1..Len(df) : \A c \in DOMAIN k : df[i][c] = k[c]})

\* Series.sum(): missing values are skipped
RECURSIVE Sum(_)
Sum(col) ==
    IF Len(col) = 0 THEN 0
    ELSE (IF col[1] = NaN THEN 0 ELSE Val(col[1])) + Sum(Tail(col))

DigitChar(d) ==
    CASE d = 0 -> "0" [] d = 1 -> "1" [] d = 2 -> "2" [] d = 3 -> "3"
      [] d = 4 -> "4" [] d = 5 -> "5" [] d = 6 -> "6" [] d = 7 -> "7"
      [] d = 8 -> "8" [] d = 9 -> "9"

\* str(n) for n >= 0
RECURSIVE IntToText(_)
IntToText(n) ==
    IF n < 10 THEN <<DigitChar(n)>> ELSE Append(IntToText(n \div 10), DigitChar(n % 10))

(***************************************************************************)
(* pd.merge(left, right, on='Lineitem name', how='left')                   *)
(***************************************************************************)
CatalogCols == {"Title", "Tags", "Variant SKU", "Vendor"}

PlistCols == CatalogCols \cup {"Product type", "Lineitem name"}

Matches(row, right) ==
    Rows(right, {j \in 1..Len(right) : right[j]["Lineitem name"] = row["Lineitem name"]})

MergeRow_inner(row, right) ==
    LET m == Matches(row, right)
    IN  [j \in 1..Len(m) |-> row @@ m[j]]

\* the rows one left row gives: one per matching right row, in the right
\* table's order, or one with the right columns missing
MergeRow(row, right) ==
    LET m == Matches(row, right)
    IN  IF Len(m) = 0 THEN << row @@ [c \in PlistCols |-> NaN] >>
        ELSE [j \in 1..Len(m) |-> row @@ m[j]]

RECURSIVE Merge(_, _)
Merge(left, right) ==
    IF Len(left) = 0 THEN <<>>
    ELSE MergeRow(left[1], right) \o Merge(Tail(left), right)

(***************************************************************************)
(* process_data                                                            *)
(***************************************************************************)
FinalCols == {"Driver", "Stop", "Shipping name", "Address", "Count", "Item Count",
              "Lineitem name", "Total items", "Note", "time", "dist"}

\* route_df.columns.str.strip(), for the header names that occur
StripName(n) ==
    CASE n = " Driver" -> "Driver" [] n = "Shipping name " -> "Shipping name" [] OTHER -> n

\* route_df.rename(columns={...})
RenameCol(n) ==
    CASE n = "Note (Order)" -> "Note"
      [] n = "Drive time (minutes)" -> "time"
      [] n = "Distance (km)" -> "dist"
      [] OTHER -> n

ColName(header, j) == RenameCol(StripName(header[j]))

RouteCols(file) == {ColName(file.columns, j) : j \in 1..Len(file.columns)}

\* pd.read_csv(route_data) with the columns stripped and renamed
ReadRoutes(file) ==
    LET at == [c \in RouteCols(file) |->
                 CHOOSE j \in 1..Len(file.columns) : ColName(file.columns, j) = c]
    IN  [i \in 1..Len(file.rows) |-> [c \in RouteCols(file) |-> file.rows[i][at[c]]]]

\* the catalog rows that have tags, with their product type and join key
TagCatalog(products) ==
    LET tagged == Rows(products, {i \in 1..Len(products) : NotNa(products[i]["Tags"])})
    IN  [i \in 1..Len(tagged) |->
            tagged[i] @@ ("Product type" :> Some(determine_product_type(tagged[i]["Tags"])))
                      @@ ("Lineitem name" :> tagged[i]["Title"])]

SplitItems(df) ==
    [i \in 1..Len(df) |->
        df[i] @@ ("Lineitem name" :> LineitemName(df[i]["Items"]))
              @@ ("Item Count" :> ItemCount(df[i]["Items"]))]

\* np.where(route_df['Item Count'] != "1", route_df['Item Count'], '')
DisplayCount(c) == IF c # Some(<<"1">>) THEN c ELSE Some(<<>>)

AddCount(df) ==
    [i \in 1..Len(df) |-> df[i] @@ ("Count" :> DisplayCount(df[i]["Item Count"]))]

Raise(msg) == [ok |-> FALSE, error |-> msg]

\* what process_data returns or raises
process_data(route_data, products_data) ==
    LET cols == RouteCols(route_data)
        df0 == ReadRoutes(route_data)
    IN  IF ~(FillCols \subseteq cols) THEN Raise("KeyError: fill_cols")
        ELSE IF Len(df0) > 0 /\ \A i \in 1..Len(df0) : df0[i]["Address"] = NaN
             THEN Raise("AttributeError: Can only use .str accessor with string values")
        ELSE IF "Items" \notin cols THEN Raise("KeyError: Items")
        ELSE LET plist == TagCatalog(products_data)
                 merged == AddCount(Merge(SplitItems(FillRoutes(df0)), plist))
                 mergedCols == cols \cup {"Lineitem name", "Item Count", "Count"} \cup PlistCols
             IN  IF FinalCols \ mergedCols # {}
                 THEN Raise("ValueError: Missing columns in route data")
                 ELSE [ok |-> TRUE, route_df |-> Select(merged, FinalCols), df_plist |-> plist]

(***************************************************************************)
(* Packing table                                                           *)
(***************************************************************************)
PackingKey == <<"Driver", "Lineitem name">>

PackingOrder == <<"Driver", "Product type", "Variant SKU", "Lineitem name">>

\* packing_df['Count'] = packing_df['Item Count'].astype(int)
AsInt(df) ==
    [i \in 1..Len(df) |-> df[i] @@ ("Count" :> Some(ToInt(Val(df[i]["Item Count"]))))]

\* groupby(["Driver", "Lineitem name"]).sum().reset_index(); the summed
\* 'Item Count' text column is not read afterwards and is left out
GroupSum(df) ==
    LET keys == GroupKeys(df, PackingKey)
    IN  [k \in 1..Len(keys) |->
            keys[k] @@ ("Count" :> Some(Sum(Column(Group(df, keys[k]), "Count"))))]

\* np.where(packing_df['Count'] > 1, packing_df['Count'], '')
AddCountNew(df) ==
    [i \in 1..Len(df) |->
        df[i] @@ ("Count_New" :> IF Val(df[i]["Count"]) > 1
                                 THEN Some(IntToText(Val(df[i]["Count"])))
                                 ELSE Some(<<>>))]

NanToInt == "ValueError: cannot convert float NaN to integer"

\* lines 130-135: the packing table, or the exception of astype(int)
build_packing(df, plist) ==
    LET p0 == Select(df, {"Driver", "Lineitem name", "Item Count"})
    IN  IF \E i \in 1..Len(p0) : p0[i]["Item Count"] = NaN
        THEN Raise(NanToInt)
        ELSE [ok |-> TRUE,
              packing_df |-> SortValues(Merge(AddCountNew(GroupSum(AsInt(p0))), plist),
                                        PackingOrder)]

(***************************************************************************)
(* Workbooks                                                               *)
(***************************************************************************)
RoutingCols == {"Address", "Count", "Lineitem name", "Total items", "Note", "time",
                "dist", "Stop"}

RoutingSums == {"Total items", "time", "dist"}

PackingCols == {"Product type", "Count_New", "Lineitem name", "Count", "Variant SKU",
                "Vendor"}

PackingSums == {"Count"}

TotalRow_count(final, cols, sumcols) ==
    [c \in cols |->
        IF c \in sumcols
        THEN Some(Cardinality({i \in 1..Len(final) : NotNa(final[i][c])}))
        ELSE NaN]

\* sums.rename('Total'): the sums in their columns, nothing elsewhere
TotalRow(final, cols, sumcols) ==
    [c \in cols |-> IF c \in sumcols THEN Some(Sum(Column(final, c))) ELSE NaN]

\* one driver's sheet as written by to_excel, with its footer
Sheet(driver, group, cols, sumcols) ==
    LET final == Select(group, cols)
    IN  [name |-> driver,
         rows |-> Append(final, TotalRow(final, cols, sumcols)),
         footer |-> driver,
         freeze_panes |-> "",
         alignment |-> ""]

DriverKeys_rows(df) ==
    Rows(Select(df, {"Driver"}), {i \in 1..Len(df) : NotNa(df[i]["Driver"])})

DriverKeys(df) == GroupKeys(df, <<"Driver">>)

\* the loop over df.groupby('Driver')
WriteSheets(df, cols, sumcols) ==
    LET keys == DriverKeys(df)
    IN  [k \in 1..Len(keys) |->
            Sheet(Val(keys[k]["Driver"]), Group(df, keys[k]), cols, sumcols)]

\* format_excel_file: borders, alignment and frozen header; values untouched
format_excel_file(wb) ==
    [k \in 1..Len(wb) |-> [wb[k] EXCEPT !.freeze_panes = "A2", !.alignment = "left"]]

create_routing_file(df) == format_excel_file(WriteSheets(df, RoutingCols, RoutingSums))

create_packing_file(df) == format_excel_file(WriteSheets(df, PackingCols, PackingSums))

(***************************************************************************)
(* The run: lines 125-151                                                  *)
(***************************************************************************)
RoutingButton == "Tuesday_Routing.xlsx"

PackingButton == "Tuesday_Packing.xlsx"

\* except Exception as e: st.error(...)
Except(msg) ==
    /\ pc' = "error"
    /\ error' = Some(msg)

funVars == <<tag, product_type, items, item_parts, filled>>

ProcessData ==
    /\ pc = "uploaded"
    /\ \E r \in {process_data(route_file, products_file)} :
           IF r.ok
           THEN /\ route_df' = r.route_df
                /\ df_plist' = r.df_plist
                /\ pc' = "processed"
                /\ UNCHANGED error
           ELSE /\ Except(r.error)
                /\ UNCHANGED <<route_df, df_plist>>
    /\ UNCHANGED <<route_file, products_file, packing_df, routing_file, packing_file,
                   offered, funVars>>

BuildPacking ==
    /\ pc = "processed"
    /\ \E r \in {build_packing(route_df, df_plist)} :
           IF r.ok
           THEN /\ packing_df' = r.packing_df
                /\ pc' = "packed"
                /\ UNCHANGED error
           ELSE /\ Except(r.error)
                /\ UNCHANGED packing_df
    /\ UNCHANGED <<route_file, products_file, route_df, df_plist, routing_file,
                   packing_file, offered, funVars>>

\* the writer or the workbook reload may raise
CreateRoutingFile ==
    /\ pc = "packed"
    /\ \E raises \in BOOLEAN :
          IF raises
          THEN /\ Except("routing workbook")
               /\ UNCHANGED routing_file
          ELSE /\ routing_file' = Some(create_routing_file(route_df))
               /\ pc' = "routing_created"
               /\ UNCHANGED error
    /\ UNCHANGED <<route_file, products_file, route_df, df_plist, packing_df,
                   packing_file, offered, funVars>>

CreatePackingFile ==
    /\ pc = "routing_created"
    /\ \E raises \in BOOLEAN :
          IF raises
          THEN /\ Except("packing workbook")
               /\ UNCHANGED packing_file
          ELSE /\ packing_file' = Some(create_packing_file(packing_df))
               /\ pc' = "packing_created"
               /\ UNCHANGED error
    /\ UNCHANGED <<route_file, products_file, route_df, df_plist, packing_df,
                   routing_file, offered, funVars>>

DownloadRouting_early ==
    /\ pc = "routing_created"
    /\ RoutingButton \notin offered
    /\ offered' = offered \cup {RoutingButton}
    /\ UNCHANGED <<pc, route_file, products_file, route_df, df_plist, packing_df,
                   routing_file, packing_file, error, funVars>>

\* st.download_button("Download Tuesday Routing", ...)
DownloadRouting ==
    /\ pc = "packing_created"
    /\ offered' = offered \cup {RoutingButton}
    /\ pc' = "routing_offered"
    /\ UNCHANGED <<route_file, products_file, route_df, df_plist, packing_df,
                   routing_file, packing_file, error, funVars>>

\* st.download_button("Download Tuesday Packing", ...)
DownloadPacking ==
    /\ pc = "routing_offered"
    /\ offered' = offered \cup {PackingButton}
    /\ pc' = "done"
    /\ UNCHANGED <<route_file, products_file, route_df, df_plist, packing_df,
                   routing_file, packing_file, error, funVars>>

(***************************************************************************)
(* Inputs                                                                  *)
(***************************************************************************)
\* header of the route export: names to strip and to rename
RouteHeader ==
    <<"Route", " Driver", "Stop", "Address", "Shipping name ", "Items", "Total items",
      "Note (Order)", "Drive time (minutes)", "Distance (km)">>

\* a header whose note column has another name
RouteHeaderNoNote ==
    <<"Route", " Driver", "Stop", "Address", "Shipping name ", "Items", "Total items",
      "Notes", "Drive time (minutes)", "Distance (km)">>

SeqsUpTo(S, n) == UNION {[1..k -> S] : k \in 0..n}

\* Items texts: "2 xA", "1 xB", and "abcA" whose first three characters hold no digit
ItemTexts == {<<"2", " ", "x", "A">>, <<"1", " ", "x", "B">>, <<"a", "b", "c", "A">>}

DriverNames == {"Ann", "Bob"}

\* row i of the route file: the first row of a stop of driver d carries the
\* stop's fields, a following row (d = NaN) only its item
RouteRow(i, d, item) ==
    IF d = NaN
    THEN <<NaN, NaN, NaN, NaN, NaN, Some(item), NaN, NaN, NaN, NaN>>
    ELSE IF Val(d) = "Ann"
    THEN <<Some(1), d, Some(i), Some(<<"a", ",", "b">>), Some("x"), Some(item),
           Some(2), Some("ring"), Some(7), Some(3)>>
    ELSE <<Some(2), d, Some(i), Some(<<"b">>), Some("c"), Some(item),
           Some(1), NaN, Some(4), Some(5)>>

RowKinds == ({NaN} \cup {Some(d) : d \in DriverNames}) \X ItemTexts

RouteFiles ==
    {[columns |-> h, rows |-> [i \in DOMAIN ks |-> RouteRow(i, ks[i][1], ks[i][2])]] :
        h \in {RouteHeader, RouteHeaderNoNote}, ks \in SeqsUpTo(RowKinds, MaxRows)}

CatalogRow(title, tags, sku) ==
    [Title |-> Some(title), Tags |-> tags, Vendor |-> Some("v")] @@ ("Variant SKU" :> sku)

\* two rows titled A with different tags, a row titled B without SKU, and an
\* untagged row
CatalogRows ==
    { CatalogRow(<<"A">>, Some(KwVegeFruit), Some(2)),
      CatalogRow(<<"A">>, Some(KwGeneral \o <<",">> \o KwCool), Some(1)),
      CatalogRow(<<"B">>, Some(<<"x">>), NaN),
      CatalogRow(<<"B">>, NaN, Some(1)) }

ProductFiles == SeqsUpTo(CatalogRows, MaxCatalog)

NoFile == [columns |-> <<>>, rows |-> <<>>]

PipelineIdle ==
    /\ route_df = <<>>
    /\ df_plist = <<>>
    /\ packing_df = <<>>
    /\ routing_file = NaN
    /\ packing_file = NaN
    /\ offered = {}
    /\ error = NaN

FunIdle ==
    /\ tag = NaN
    /\ product_type = ""
    /\ items = NaN
    /\ item_parts = [name |-> NaN, count |-> NaN]
    /\ filled = <<>>

\* both files uploaded: the script enters the try block.  A route file whose
\* header lacks a column fails whatever the catalog holds, and is tried with
\* the empty catalog only.
Init ==
    /\ pc = "uploaded"
    /\ route_file \in RouteFiles
    /\ products_file \in (IF route_file.columns = RouteHeader THEN ProductFiles ELSE {<<>>})
    /\ PipelineIdle
    /\ FunIdle

Next ==
    \/ ProcessData
    \/ BuildPacking
    \/ CreateRoutingFile
    \/ CreatePackingFile
    \/ DownloadRouting
    \/ DownloadPacking

Spec == Init /\ [][Next]_vars

(***************************************************************************)
(* The item split alone, over all short Items texts                        *)
(***************************************************************************)
ItemAlphabet == {"1", "2", "x", "A"}

InitItems ==
    /\ pc = "call"
    /\ items \in {NaN} \cup {Some(t) : t \in SeqsUpTo(ItemAlphabet, MaxItemsLen)}
    /\ route_file = NoFile
    /\ products_file = <<>>
    /\ PipelineIdle
    /\ tag = NaN
    /\ product_type = ""
    /\ item_parts = [name |-> NaN, count |-> NaN]
    /\ filled = <<>>

SplitItem ==
    /\ pc = "call"
    /\ item_parts' = [name |-> LineitemName(items), count |-> ItemCount(items)]
    /\ pc' = "return"
    /\ UNCHANGED <<pipelineVars, tag, product_type, items, filled>>

SpecItems == InitItems /\ [][SplitItem]_vars

(***************************************************************************)
(* determine_product_type alone, over tags built from keyword fragments    *)
(***************************************************************************)
TagFragments ==
    {KwVegeFruit, KwSubscription, KwCool, KwGeneral,
     <<"chang", "wen">>, <<"lei">>, <<",">>, <<"A">>}

RECURSIVE Concat(_)
Concat(ss) == IF Len(ss) = 0 THEN <<>> ELSE ss[1] \o Concat(Tail(ss))

InitClassify ==
    /\ pc = "call"
    /\ tag \in {NaN} \cup {Some(Concat(fs)) : fs \in SeqsUpTo(TagFragments, MaxFrags)}
    /\ route_file = NoFile
    /\ products_file = <<>>
    /\ PipelineIdle
    /\ product_type = ""
    /\ items = NaN
    /\ item_parts = [name |-> NaN, count |-> NaN]
    /\ filled = <<>>

Classify ==
    /\ pc = "call"
    /\ product_type' = determine_product_type(tag)
    /\ pc' = "return"
    /\ UNCHANGED <<pipelineVars, tag, items, item_parts, filled>>

SpecClassify == InitClassify /\ [][Classify]_vars

(***************************************************************************)
(* The forward fill alone, over sparse route tables                        *)
(***************************************************************************)
AddressKinds == {"blank", "plain", "comma", "leading comma"}

FillAddress(i, k) ==
    CASE k = "blank" -> NaN
      [] k = "plain" -> Some(IF i % 2 = 1 THEN <<"a">> ELSE <<"b">>)
      [] k = "comma" -> Some(IF i % 2 = 1 THEN <<"a", ",", "b">> ELSE <<"b", ",", "a">>)
      [] k = "leading comma" -> Some(<<",", "b">>)

\* row i: route and driver given or blank, stop and shipping name given or
\* blank, and one of the address kinds; given values differ from row to row
FillRow(i, rd, ss, k) ==
    << IF rd THEN Some(i) ELSE NaN,
       IF rd THEN Some(IF i % 2 = 1 THEN "Ann" ELSE "Bob") ELSE NaN,
       IF ss THEN Some(i) ELSE NaN,
       FillAddress(i, k),
       IF ss THEN Some(IF i % 2 = 1 THEN "x" ELSE "c") ELSE NaN,
       Some(<<"2", " ", "x", "A">>), NaN, NaN, NaN, NaN >>

FillKinds == BOOLEAN \X BOOLEAN \X AddressKinds

InitFfill ==
    /\ pc = "call"
    /\ route_file \in
          {[columns |-> RouteHeader,
            rows |-> [i \in DOMAIN ks |-> FillRow(i, ks[i][1], ks[i][2], ks[i][3])]] :
              ks \in SeqsUpTo(FillKinds, MaxFillRows)}
    /\ products_file = <<>>
    /\ PipelineIdle
    /\ FunIdle

ForwardFill ==
    /\ pc = "call"
    /\ filled' = FillRoutes(ReadRoutes(route_file))
    /\ pc' = "return"
    /\ UNCHANGED <<pipelineVars, tag, product_type, items, item_parts>>

SpecFfill == InitFfill /\ [][ForwardFill]_vars

(***************************************************************************)
(* Properties                                                              *)
(***************************************************************************)
Processed ==
    pc \in {"processed", "packed", "routing_created", "packing_created",
            "routing_offered", "done"}

Packed ==
    pc \in {"packed", "routing_created", "packing_created", "routing_offered", "done"}

LeadingDigits(t) ==
    SetMax({k \in 0..Len(t) : \A i \in 1..k : IsDigit(t[i])})

\* C1 as stated: the count is the leading digits of Items, however many, and
\* the item name is everything after them.
ItemSplitAtLeadingDigits ==
    (pc = "return" /\ items # NaN /\ LeadingDigits(Val(items)) >= 1) =>
        LET t == Val(items)
            k == LeadingDigits(t)
        IN  /\ item_parts.count = Some([i \in 1..k |-> t[i]])
            /\ item_parts.name = Some([i \in 1..(Len(t) - k) |-> t[k + i]])

\* C1 amended: the item name is Items without its first three characters;
\* the count is the first run of digits inside the first three characters,
\* taken as long as it goes there, and is missing when they hold no digit.
ItemSplitAtFixedPrefix ==
    (pc = "return") =>
        IF items = NaN
        THEN item_parts.name = NaN /\ item_parts.count = NaN
        ELSE LET t == Val(items)
                 p == Min2(PrefixLen, Len(t))
                 n == item_parts.name
                 c == item_parts.count
             IN  /\ n # NaN
                 /\ Len(Val(n)) = Len(t) - p
                 /\ \A i \in 1..Len(Val(n)) : Val(n)[i] = t[p + i]
                 /\ (c = NaN) <=> (\A i \in 1..p : ~IsDigit(t[i]))
                 /\ (c # NaN) =>
                       \E b \in 1..p : \E e \in b..p :
                          /\ Val(c) = [k \in 1..(e - b + 1) |-> t[b + k - 1]]
                          /\ \A k \in b..e : IsDigit(t[k])
                          /\ \A k \in 1..(b - 1) : ~IsDigit(t[k])
                          /\ (e = p \/ ~IsDigit(t[e + 1]))

\* Items "12xA": count "12", name "A"
ItemSplitWitness ==
    /\ pc = "return"
    /\ items = Some(<<"1", "2", "x", "A">>)
    /\ item_parts = [name |-> Some(<<"A">>), count |-> Some(<<"1", "2">>)]

\* for each route row, the number of tagged catalog rows whose title is the
\* row's item name
MatchCounts ==
    LET raw == ReadRoutes(route_file)
    IN  [i \in 1..Len(raw) |->
            Cardinality({j \in 1..Len(df_plist) :
                df_plist[j]["Title"] = LineitemName(raw[i]["Items"])})]

\* C2 as stated: the merged table has at least the route table's rows, and
\* exactly as many iff every item name matches exactly one catalog title.
LeftJoinEqualIffExactlyOne ==
    Processed =>
        \A m \in {MatchCounts} :
            /\ Len(route_df) >= Len(m)
            /\ (Len(route_df) = Len(m)) <=> (\A i \in DOMAIN m : m[i] = 1)

\* C2 amended: the merged table has at least the route table's rows, and
\* exactly as many iff every item name matches at most one tagged catalog
\* title; a row whose item name matches k >= 2 titles adds k - 1 rows.
LeftJoinEqualIffAtMostOne ==
    Processed =>
        \A m \in {MatchCounts} :
            /\ Len(route_df) >= Len(m)
            /\ (Len(route_df) = Len(m)) <=> (\A i \in DOMAIN m : m[i] <= 1)
            /\ \A i \in DOMAIN m : m[i] >= 2 => Len(route_df) >= Len(m) + m[i] - 1

\* a route row without catalog match is kept, and the row counts agree
LeftJoinWitness ==
    /\ Processed
    /\ Len(route_file.rows) = MaxRows
    /\ Len(route_df) = Len(route_file.rows)
    /\ \E i \in DOMAIN MatchCounts : MatchCounts[i] = 0
    /\ \E i \in DOMAIN MatchCounts : MatchCounts[i] = 1

DriverRows(df, d) == Rows(df, {i \in 1..Len(df) : df[i]["Driver"] = Some(d)})

\* C3: for every driver, the Count of the driver's packing rows sums to the
\* sum of the integer item counts of the driver's merged route rows.
PackingCountConserved ==
    Packed =>
        \A d \in DriverNames :
            LET merged == DriverRows(route_df, d)
            IN  Sum(Column(DriverRows(packing_df, d), "Count"))
                    = Sum([i \in 1..Len(merged) |-> Some(ToInt(Val(merged[i]["Item Count"])))])

ProductTypes == {"vege & fruit", "cool", "general", "other"}

\* C4: determine_product_type gives a category for every tag, and the first
\* keyword set found in the tag, in the order vege & fruit, cool, general,
\* decides it; a tag with no keyword is 'other'.
ClassifyPriority ==
    (pc = "return") =>
        LET t == Str(tag)
            vege == Contains(t, KwVegeFruit) \/ Contains(t, KwSubscription)
            cool == Contains(t, KwCool)
            general == Contains(t, KwGeneral)
        IN  /\ product_type \in ProductTypes
            /\ vege => product_type = "vege & fruit"
            /\ (~vege /\ cool) => product_type = "cool"
            /\ (~vege /\ ~cool /\ general) => product_type = "general"
            /\ (~vege /\ ~cool /\ ~general) => product_type = "other"

\* a tag holding both the general and the cool keyword is 'cool'
ClassifyWitness ==
    /\ pc = "return"
    /\ tag # NaN
    /\ Contains(Val(tag), KwGeneral)
    /\ Contains(Val(tag), KwCool)
    /\ ~Contains(Val(tag), KwVegeFruit)
    /\ product_type = "cool"

\* C5: a run ends with both reports offered and no error, or with an error
\* shown and no report offered; nothing is offered before both workbooks exist.
NoPartialOutput ==
    /\ (pc = "done") => (offered = {RoutingButton, PackingButton} /\ error = NaN)
    /\ (pc = "error") => (offered = {} /\ error # NaN)
    /\ (offered # {}) => (routing_file # NaN /\ packing_file # NaN)

\* the packing workbook fails after the routing workbook was created
NoPartialOutputWitness ==
    /\ pc = "error"
    /\ error = Some("packing workbook")
    /\ routing_file # NaN
    /\ offered = {}

HasNullCount == \E i \in 1..Len(route_df) : route_df[i]["Item Count"] = NaN

\* C6: a null item count goes through merging and the packing aggregation
\* without an error of the aggregation.
NullCountCarriedThrough ==
    HasNullCount => error # Some(NanToInt)

Drivers(df) == {Val(df[i]["Driver"]) : i \in {j \in 1..Len(df) : NotNa(df[j]["Driver"])}}

OneSheetEach(file) ==
    (file # NaN) =>
        /\ \A d \in Drivers(route_df) :
              Cardinality({k \in 1..Len(Val(file)) : Val(file)[k].name = d}) = 1
        /\ \A k \in 1..Len(Val(file)) : Val(file)[k].name \in Drivers(route_df)

RECURSIVE ColumnTotal(_, _, _)
ColumnTotal(rows, c, n) ==
    IF n = 0 THEN 0
    ELSE ColumnTotal(rows, c, n - 1) + (IF rows[n][c] = NaN THEN 0 ELSE Val(rows[n][c]))

TotalIsLast(file, cols, sumcols) ==
    (file # NaN) =>
        \A k \in 1..Len(Val(file)) :
            LET rows == Val(file)[k].rows
                n == Len(rows)
            IN  /\ n >= 2
                /\ \A c \in cols :
                      rows[n][c] = IF c \in sumcols
                                   THEN Some(ColumnTotal(rows, c, n - 1))
                                   ELSE NaN

\* C8: the last row of every sheet sums Total items, time and dist (routing)
\* or Count (packing) over the rows before it and is blank elsewhere.
TotalRowSums ==
    /\ TotalIsLast(routing_file, RoutingCols, {"Total items", "time", "dist"})
    /\ TotalIsLast(packing_file, PackingCols, {"Count"})

\* a routing sheet of three data rows, one of them without Total items
TotalRowWitness ==
    /\ pc = "done"
    /\ \E k \in 1..Len(Val(routing_file)) :
          LET rows == Val(routing_file)[k].rows
          IN  /\ Len(rows) >= 4
              /\ rows[1]["Total items"] # NaN
              /\ rows[1]["Total items"] # rows[Len(rows)]["Total items"]
              /\ \E i \in 1..(Len(rows) - 1) : rows[i]["Total items"] = NaN

\* the text before the first comma of t
BeforeComma(t) ==
    LET k == CHOOSE k \in 0..Len(t) :
                /\ \A i \in 1..k : t[i] # ","
                /\ (k = Len(t) \/ t[k + 1] = ",")
    IN  [i \in 1..k |-> t[i]]

SheetOrder == <<"Product type", "Variant SKU", "Lineitem name">>

\* C10: the packing table is in ascending order of (Driver, Product type,
\* Variant SKU, Lineitem name), missing values last, and on every packing
\* sheet consecutive data rows are in non-decreasing order of (Product type,
\* Variant SKU, Lineitem name).
PackingSheetsSorted ==
    /\ Packed =>
          \A i \in 1..(Len(packing_df) - 1) :
              RowCmp(PackingOrder, packing_df[i], packing_df[i + 1]) <= 0
    /\ (packing_file # NaN) =>
          \A k \in 1..Len(Val(packing_file)) :
              LET rows == Val(packing_file)[k].rows
              IN  \A i \in 1..(Len(rows) - 2) : RowCmp(SheetOrder, rows[i], rows[i + 1]) <= 0

\* a packing sheet whose rows the sort had to reorder
PackingSortWitness ==
    /\ packing_file # NaN
    /\ \E k \in 1..Len(Val(packing_file)) :
          LET rows == Val(packing_file)[k].rows
          IN  /\ Len(rows) >= 3
              /\ rows[1]["Product type"] = Some("cool")
              /\ rows[2]["Product type"] = Some("vege & fruit")
    /\ df_plist[1]["Product type"] = Some("vege & fruit")

====
